---------------------------- MODULE Spec2Model ----------------------------
(***************************************************************************)
(* Model of the chat response decoding of MaviClient                      *)
(* (src/src/maviclient.py): the generator _stream_response, which         *)
(* assembles the chunks of a streamed HTTP body into JSON envelopes, and  *)
(* its buffered counterpart _get_full_response.                           *)
(*                                                                         *)
(* Text is a sequence of characters (one-character strings; the one       *)
(* non-ASCII character of the alphabet is written "U+00E9").  Bytes are   *)
(* integers.  The JSON decoder follows CPython's json.decoder /           *)
(* json.scanner on the alphabet Chars: objects, strings and numbers (the  *)
(* alphabet has no '[', '\', '-', '.', '+', and none of the literals       *)
(* null/true/false/NaN/Infinity can be spelled with it).                  *)
(***************************************************************************)
EXTENDS Integers, Sequences, FiniteSets, TLC

(***************************************************************************)
(* Characters, bytes, UTF-8                                                *)
(***************************************************************************)

\* Code points of the characters of the model's alphabet.
CodePoint ==
    [c \in {"\n", " ", "\"", ",", "0", "1", "5", ":", "a", "c", "d", "e",
            "g", "h", "i", "m", "o", "s", "t", "{", "}", "U+00E9"} |->
        CASE c = "\n" -> 10  [] c = " " -> 32   [] c = "\"" -> 34
          [] c = "," -> 44   [] c = "0" -> 48   [] c = "1" -> 49
          [] c = "5" -> 53   [] c = ":" -> 58   [] c = "a" -> 97
          [] c = "c" -> 99   [] c = "d" -> 100  [] c = "e" -> 101
          [] c = "g" -> 103  [] c = "h" -> 104  [] c = "i" -> 105
          [] c = "m" -> 109  [] c = "o" -> 111  [] c = "s" -> 115
          [] c = "t" -> 116  [] c = "{" -> 123  [] c = "}" -> 125
          [] c = "U+00E9" -> 233]

Chars == DOMAIN CodePoint

Chr(cp) == CHOOSE c \in Chars : CodePoint[c] = cp

\* str.encode("utf-8") of one character: one byte below U+0080, two below U+0800.
Utf8Char(c) ==
    LET cp == CodePoint[c]
    IN  IF cp < 128 THEN <<cp>> ELSE <<192 + (cp \div 64), 128 + (cp % 64)>>

RECURSIVE Utf8Encode(_)
Utf8Encode(text) ==
    IF text = <<>> THEN <<>> ELSE Utf8Char(Head(text)) \o Utf8Encode(Tail(text))

\* bytes.decode('utf-8') is strict: a lone continuation byte, an overlong lead
\* byte (0xC0, 0xC1), or a lead byte without its continuation byte raises
\* UnicodeDecodeError.  Utf8Valid says whether it decodes; Utf8Decode is the text.
RECURSIVE Utf8Valid(_)
Utf8Valid(bytes) ==
    IF bytes = <<>> THEN TRUE
    ELSE LET b == Head(bytes)
         IN  IF b < 128 THEN Utf8Valid(Tail(bytes))
             ELSE IF b >= 194 /\ b <= 223 /\ Len(bytes) >= 2
                     /\ bytes[2] >= 128 /\ bytes[2] <= 191
                  THEN Utf8Valid(Tail(Tail(bytes)))
                  ELSE FALSE

RECURSIVE Utf8Decode(_)
Utf8Decode(bytes) ==
    IF bytes = <<>> THEN <<>>
    ELSE LET b == Head(bytes)
         IN  IF b < 128 THEN <<Chr(b)>> \o Utf8Decode(Tail(bytes))
             ELSE <<Chr((b - 192) * 64 + (bytes[2] - 128))>>
                      \o Utf8Decode(Tail(Tail(bytes)))

(***************************************************************************)
(* str operations                                                          *)
(***************************************************************************)

\* The characters str.strip() removes (the whitespace of the alphabet).
PyWhitespace == {" ", "\n"}

RECURSIVE LStrip(_)
LStrip(s) ==
    IF s # <<>> /\ Head(s) \in PyWhitespace THEN LStrip(Tail(s)) ELSE s

RECURSIVE RStrip(_)
RStrip(s) ==
    IF s # <<>> /\ s[Len(s)] \in PyWhitespace
    THEN RStrip(SubSeq(s, 1, Len(s) - 1)) ELSE s

\* str.strip()
Strip(s) == RStrip(LStrip(s))

\* s[n:]
DropFirst(s, n) == SubSeq(s, n + 1, Len(s))

DataPrefix == <<"d", "a", "t", "a", ":">>

\* s.startswith(p)
StartsWith(s, p) == Len(s) >= Len(p) /\ SubSeq(s, 1, Len(p)) = p

(***************************************************************************)
(* Python values and json.JSONDecoder                                      *)
(***************************************************************************)

\* A decoded JSON value: kind "str" (its text in str), "num" (its digits in
\* str), "dict" (its items, in source order, in items); "none" is None.
StrVal(s) == [kind |-> "str", str |-> s, items |-> <<>>]
NumVal(s) == [kind |-> "num", str |-> s, items |-> <<>>]
DictVal(items) == [kind |-> "dict", str |-> <<>>, items |-> items]
NoneVal == [kind |-> "none", str |-> <<>>, items |-> <<>>]
EmptyStr == StrVal(<<>>)
EmptyDict == DictVal(<<>>)

\* dict.get(key, default): a later duplicate key overrides an earlier one.
RECURSIVE GetItem(_, _, _)
GetItem(items, key, default) ==
    IF items = <<>> THEN default
    ELSE LET last == items[Len(items)]
         IN  IF last.key = key THEN last.val
             ELSE GetItem(SubSeq(items, 1, Len(items) - 1), key, default)

Get(d, key, default) == GetItem(d.items, key, default)

\* A failed scan (JSONDecodeError).
ScanFail == [ok |-> FALSE, val |-> NoneVal, end |-> 0]
ScanOk(v, e) == [ok |-> TRUE, val |-> v, end |-> e]

JsonWhitespace == {" ", "\n"}
Digits == {"0", "1", "5"}

\* s[i:i+1], "" past the end (written "EOF").
At(s, i) == IF i >= 1 /\ i <= Len(s) THEN s[i] ELSE "EOF"

\* WHITESPACE.match(s, i).end()
RECURSIVE SkipWs(_, _)
SkipWs(s, i) == IF At(s, i) \in JsonWhitespace THEN SkipWs(s, i + 1) ELSE i

\* The end of a run of digits starting at i.
RECURSIVE SkipDigits(_, _)
SkipDigits(s, i) == IF At(s, i) \in Digits THEN SkipDigits(s, i + 1) ELSE i

\* scanstring(s, i) with i just after the opening quote (strict mode): the text
\* up to the closing quote; a control character or the end of input fails.
RECURSIVE ScanString(_, _, _)
ScanString(s, i, acc) ==
    LET c == At(s, i)
    IN  IF c = "EOF" \/ c = "\n" THEN ScanFail
        ELSE IF c = "\"" THEN ScanOk(StrVal(acc), i + 1)
        ELSE ScanString(s, i + 1, Append(acc, c))

\* NUMBER_RE: (0|[1-9][0-9]*) then an optional exponent e[0-9]+.
ScanNumber(s, i) ==
    LET intEnd == IF s[i] = "0" THEN i + 1 ELSE SkipDigits(s, i)
        end == IF At(s, intEnd) = "e" /\ At(s, intEnd + 1) \in Digits
               THEN SkipDigits(s, intEnd + 1) ELSE intEnd
    IN  ScanOk(NumVal(SubSeq(s, i, end - 1)), end)

RECURSIVE ScanOnce(_, _)
RECURSIVE ScanMembers(_, _, _)

\* JSONObject with i just after '{'.
ScanObject(s, i) ==
    LET j == IF At(s, i) = "\"" THEN i ELSE SkipWs(s, i)
    IN  IF At(s, j) = "}" THEN ScanOk(EmptyDict, j + 1)
        ELSE IF At(s, j) # "\"" THEN ScanFail
        ELSE ScanMembers(s, j + 1, <<>>)

\* The loop of JSONObject, with i just after the opening quote of a key.
ScanMembers(s, i, items) ==
    LET k == ScanString(s, i, <<>>)
    IN  IF ~k.ok THEN ScanFail
        ELSE
        LET colon == IF At(s, k.end) = ":" THEN k.end ELSE SkipWs(s, k.end)
        IN  IF At(s, colon) # ":" THEN ScanFail
            ELSE
            LET v == ScanOnce(s, SkipWs(s, colon + 1))
            IN  IF ~v.ok THEN ScanFail
                ELSE
                LET all == Append(items, [key |-> k.val.str, val |-> v.val])
                    e == SkipWs(s, v.end)
                IN  IF At(s, e) = "}" THEN ScanOk(DictVal(all), e + 1)
                    ELSE IF At(s, e) # "," THEN ScanFail
                    ELSE
                    LET q == SkipWs(s, e + 1)
                    IN  IF At(s, q) # "\"" THEN ScanFail
                        ELSE ScanMembers(s, q + 1, all)

\* scan_once(s, i): no whitespace is skipped before the value.
ScanOnce(s, i) ==
    LET c == At(s, i)
    IN  IF c = "\"" THEN ScanString(s, i + 1, <<>>)
        ELSE IF c = "{" THEN ScanObject(s, i + 1)
        ELSE IF c \in Digits THEN ScanNumber(s, i)
        ELSE ScanFail

\* json.JSONDecoder().raw_decode(s): the value and the index (0-based) of the
\* end of its text, or JSONDecodeError (ok = FALSE).
RawDecode(s) ==
    LET r == ScanOnce(s, 1)
    IN  IF r.ok THEN ScanOk(r.val, r.end - 1) ELSE ScanFail

\* json.loads(s): whitespace around the one value is skipped, anything else
\* after it is "Extra data" (JSONDecodeError).
JsonLoads(s) ==
    LET r == ScanOnce(s, SkipWs(s, 1))
    IN  IF r.ok /\ SkipWs(s, r.end) = Len(s) + 1 THEN ScanOk(r.val, Len(s))
        ELSE ScanFail

(***************************************************************************)
(* The wire: what the server sends (spec section 6)                        *)
(***************************************************************************)

KeyCode == <<"c", "o", "d", "e">>
KeyMsg == <<"m", "s", "g">>
KeyData == <<"d", "a", "t", "a">>

\* The success sentinel '0000'.
Success == <<"0", "0", "0", "0">>

Quote(s) == <<"\"">> \o s \o <<"\"">>

\* An envelope: its code, its msg (when hasMsg), and its data: "absent", "empty"
\* (an object without msg) or "text" (an object whose msg is the payload text).
Envelope(code, hasMsg, msg, data, text) ==
    [code |-> code, hasMsg |-> hasMsg, msg |-> msg, data |-> data, text |-> text]

\* The JSON text of an envelope, compact or with a space after ':' and ','.
Dumps(env, spaced) ==
    LET sp == IF spaced THEN <<" ">> ELSE <<>>
        colon == <<":">> \o sp
        comma == <<",">> \o sp
    IN  <<"{">> \o Quote(KeyCode) \o colon \o Quote(env.code)
          \o (IF env.hasMsg THEN comma \o Quote(KeyMsg) \o colon \o Quote(env.msg)
              ELSE <<>>)
          \o (CASE env.data = "absent" -> <<>>
                [] env.data = "empty" ->
                     comma \o Quote(KeyData) \o colon \o <<"{", "}">>
                [] env.data = "text" ->
                     comma \o Quote(KeyData) \o colon \o <<"{">> \o Quote(KeyMsg)
                       \o colon \o Quote(env.text) \o <<"}">>)
          \o <<"}">>

\* The text the decoder is to give for a success envelope: data.msg, "" when absent.
Payload(env) == IF env.data = "text" THEN env.text ELSE <<>>

IsSuccess(env) == env.code = Success

\* One occurrence of an envelope on the wire: whitespace, an optional "data: "
\* prefix, the envelope, whitespace.
Frame(lead, prefix, env, spaced, sep) ==
    [lead |-> lead, prefix |-> prefix, env |-> env, spaced |-> spaced, sep |-> sep]

FrameHead(f) ==
    f.lead \o (IF f.prefix THEN DataPrefix \o <<" ">> ELSE <<>>)
       \o Dumps(f.env, f.spaced)

FrameText(f) == FrameHead(f) \o f.sep

RECURSIVE WireText(_)
WireText(fs) == IF fs = <<>> THEN <<>> ELSE FrameText(Head(fs)) \o WireText(Tail(fs))

WireBytes(fs) == Utf8Encode(WireText(fs))

\* The envelopes of the inputs.
EnvHi == Envelope(Success, TRUE, <<>>, "text", <<"h", "i">>)
EnvText == Envelope(Success, FALSE, <<>>, "text", <<"a", " ", "U+00E9">>)
EnvNoData == Envelope(Success, FALSE, <<>>, "absent", <<>>)
EnvNoMsg == Envelope(Success, FALSE, <<>>, "empty", <<>>)
EnvError ==
    Envelope(<<"5", "0", "0", "1">>, TRUE, <<"t", "o", "a", "s", "t">>, "absent", <<>>)

Envelopes == {EnvHi, EnvText, EnvNoData, EnvNoMsg, EnvError}

Bare(env) == Frame(<<>>, FALSE, env, FALSE, <<>>)
Prefixed(env) == Frame(<<>>, TRUE, env, FALSE, <<>>)
Event(env) == Frame(<<>>, TRUE, env, FALSE, <<"\n", "\n">>)

\* The responses of the inputs: one envelope, bare or prefixed; one envelope
\* with whitespace around it; two or three envelopes back to back.
SingleWires ==
    {<<Bare(e)>> : e \in Envelopes} \cup {<<Prefixed(e)>> : e \in Envelopes}
      \cup {<<Frame(<<" ">>, FALSE, EnvHi, TRUE, <<"\n">>)>>,
            <<Frame(<<"\n">>, TRUE, EnvNoMsg, FALSE, <<"\n">>)>>,
            <<Frame(<<>>, TRUE, EnvNoData, FALSE, <<" ", "\n">>)>>}

MultiWires ==
    {<<Bare(EnvNoData), Bare(EnvText)>>,
     <<Frame(<<>>, FALSE, EnvNoData, FALSE, <<"\n">>), Bare(EnvNoMsg), Bare(EnvNoData)>>,
     <<Event(EnvNoData), Event(EnvNoMsg)>>,
     <<Bare(EnvError), Bare(EnvNoData)>>}

Wires == SingleWires \cup MultiWires

\* Where a response may be cut off by the server: inside its first envelope, and
\* inside its last.
TruncatedWires ==
    {<<Bare(EnvHi)>>, <<Bare(EnvNoData), Bare(EnvNoMsg)>>}

CutBack == {3, 10}

(***************************************************************************)
(* The decoder                                                             *)
(***************************************************************************)

\* What a call gives back: None, a value, the pair (code, msg), an exception.
RNone == [kind |-> "None", val |-> NoneVal, code |-> NoneVal, msg |-> NoneVal, exc |-> ""]
RValue(v) == [kind |-> "value", val |-> v, code |-> NoneVal, msg |-> NoneVal, exc |-> ""]
RPair(c, m) == [kind |-> "pair", val |-> NoneVal, code |-> c, msg |-> m, exc |-> ""]
RExc(e) == [kind |-> "exc", val |-> NoneVal, code |-> NoneVal, msg |-> NoneVal, exc |-> e]

\* iter_content(chunk_size=1024)
ChunkSize == 1024

\* OnChunk with the except clause resetting the buffer.
OnChunkReset(buf, bytes) ==
    IF ~Utf8Valid(bytes) THEN [ok |-> FALSE, buffer |-> <<>>]
    ELSE LET appended == buf \o Strip(Utf8Decode(bytes))
         IN  [ok |-> TRUE,
              buffer |-> IF StartsWith(appended, DataPrefix)
                         THEN Strip(DropFirst(appended, 5)) ELSE appended]

\* OnChunk removing "data" without its colon.
OnChunkShortPrefix(buf, bytes) ==
    IF ~Utf8Valid(bytes) THEN [ok |-> FALSE, buffer |-> buf]
    ELSE LET appended == buf \o Strip(Utf8Decode(bytes))
         IN  [ok |-> TRUE,
              buffer |-> IF StartsWith(appended, DataPrefix)
                         THEN Strip(DropFirst(appended, 4)) ELSE appended]

\* One chunk of the for loop, up to the while loop: the chunk is decoded and
\* stripped, appended to the buffer, and a leading "data:" is removed;
\* UnicodeDecodeError skips the chunk (ok = FALSE).
OnChunk(buf, bytes) ==
    IF ~Utf8Valid(bytes) THEN [ok |-> FALSE, buffer |-> buf]
    ELSE LET appended == buf \o Strip(Utf8Decode(bytes))
         IN  [ok |-> TRUE,
              buffer |-> IF StartsWith(appended, DataPrefix)
                         THEN Strip(DropFirst(appended, 5)) ELSE appended]

\* Interpret with json_data['data']['msg'] in place of the two .get with defaults.
InterpretNoDefault(json) ==
    IF json.kind # "dict" THEN RExc("AttributeError")
    ELSE IF Get(json, KeyCode, NoneVal) # StrVal(Success)
         THEN RPair(Get(json, KeyCode, EmptyStr), Get(json, KeyMsg, EmptyStr))
    ELSE LET data == Get(json, KeyData, NoneVal)
         IN  IF data.kind # "dict" THEN RExc("KeyError")
             ELSE IF Get(data, KeyMsg, NoneVal) = NoneVal THEN RExc("KeyError")
             ELSE RValue(Get(data, KeyMsg, NoneVal))

\* The envelope rule shared by both paths: a code other than '0000' gives the
\* pair (code, msg), '0000' gives data.msg; .get on a value that is no dict
\* raises AttributeError.
Interpret(json) ==
    IF json.kind # "dict" THEN RExc("AttributeError")
    ELSE IF Get(json, KeyCode, NoneVal) # StrVal(Success)
         THEN RPair(Get(json, KeyCode, EmptyStr), Get(json, KeyMsg, EmptyStr))
    ELSE LET data == Get(json, KeyData, EmptyDict)
         IN  IF data.kind # "dict" THEN RExc("AttributeError")
             ELSE RValue(Get(data, KeyMsg, EmptyStr))

\* One round of the while loop: "incomplete" (JSONDecodeError: break), or the
\* parsed text is removed from the buffer and the envelope yields its payload
\* ("yield"), ends the generator with the pair ("return") or raises ("raise").
ParseOne(buf) ==
    LET r == RawDecode(buf)
    IN  IF ~r.ok THEN [kind |-> "incomplete", buffer |-> buf, res |-> RNone]
        ELSE LET res == Interpret(r.val)
             IN  [kind |-> CASE res.kind = "value" -> "yield"
                             [] res.kind = "pair" -> "return"
                             [] OTHER -> "raise",
                  buffer |-> Strip(DropFirst(buf, r.end)),
                  res |-> res]

\* Finally without response.close().
FinallyLeak(resp) == resp

\* The finally clause: the response, once assigned, is closed.
Finally(resp) == IF resp = "open" THEN "closed" ELSE resp

\* The body of _get_full_response after raise_for_status, on response.text.
DecodeFull(text) ==
    LET content == IF StartsWith(text, DataPrefix)
                   THEN Strip(DropFirst(text, 5)) ELSE text
        r == JsonLoads(content)
    IN  IF ~r.ok THEN [term |-> "raised", retval |-> RExc("JSONDecodeError")]
        ELSE LET res == Interpret(r.val)
             IN  IF res.kind = "exc" THEN [term |-> "raised", retval |-> res]
                 ELSE [term |-> "returned", retval |-> res]

\* The generator run to its end on a given sequence of chunks, the consumer
\* taking every element and the transport not failing: what it yielded, how
\* it ended, and the buffer it ended with.
RECURSIVE Drain(_, _)
Drain(buf, out) ==
    LET p == ParseOne(buf)
    IN  CASE p.kind = "incomplete" ->
               [yielded |-> out, term |-> "running", retval |-> RNone, buffer |-> buf]
          [] p.kind = "yield" -> Drain(p.buffer, Append(out, p.res))
          [] p.kind = "return" ->
               [yielded |-> out, term |-> "returned", retval |-> p.res, buffer |-> p.buffer]
          [] p.kind = "raise" ->
               [yielded |-> out, term |-> "raised", retval |-> p.res, buffer |-> p.buffer]

RECURSIVE Feed(_, _, _)
Feed(chunks, buf, out) ==
    IF chunks = <<>>
    THEN [yielded |-> out, term |-> "returned", retval |-> RNone, buffer |-> buf]
    ELSE LET c == OnChunk(buf, Head(chunks))
         IN  IF Head(chunks) = <<>> THEN Feed(Tail(chunks), buf, out)
             ELSE IF ~c.ok THEN Feed(Tail(chunks), c.buffer, out)
             ELSE LET d == Drain(c.buffer, out)
                  IN  IF d.term = "running" THEN Feed(Tail(chunks), d.buffer, d.yielded)
                      ELSE d

StreamResponse(chunks) == Feed(chunks, <<>>, <<>>)

(***************************************************************************)
(* State                                                                   *)
(***************************************************************************)

VARIABLES
    mode,      \* "stream" or "full": the stream argument of chat_with_videos
    frames,    \* the envelopes the server answers with
    wire,      \* the bytes of the response body
    sent,      \* how many of them iter_content has delivered
    eof,       \* iter_content is exhausted
    chunk,     \* the loop variable chunk
    buffer,    \* the local buffer
    yielded,   \* the elements the consumer has received
    pc,        \* "created", "iter", "parse", "yield", "done"
    term,      \* "running", "returned", "raised", "closed"
    retval,    \* the value returned, or the exception raised
    response   \* "none", "open", "closed", "read"

vars == <<mode, frames, wire, sent, eof, chunk, buffer, yielded, pc, term,
          retval, response>>

Min(a, b) == IF a < b THEN a ELSE b

Init ==
    /\ mode \in {"stream", "full"}
    /\ \/ /\ frames \in Wires
          /\ wire = WireBytes(frames)
       \/ /\ frames \in TruncatedWires
          /\ \E k \in CutBack : wire = SubSeq(WireBytes(frames), 1, Len(WireBytes(frames)) - k)
    /\ sent = 0
    /\ eof = FALSE
    /\ chunk = <<>>
    /\ buffer = <<>>
    /\ yielded = <<>>
    /\ pc = "created"
    /\ term = "running"
    /\ retval = RNone
    /\ response = "none"

\* The call has ended with res: the finally clause runs.
Finish(t, res) ==
    /\ pc' = "done"
    /\ term' = t
    /\ retval' = res
    /\ response' = Finally(response)

\* The first next() of the consumer: requests.post and raise_for_status. Either
\* may raise a RequestException, which the generator returns.
StreamStart ==
    /\ mode = "stream"
    /\ pc = "created"
    /\ \E outcome \in {"ok", "post_raises", "status_raises"} :
         CASE outcome = "post_raises" ->
                /\ pc' = "done"
                /\ term' = "returned"
                /\ retval' = RExc("RequestException")
                /\ response' = Finally("none")
           [] outcome = "status_raises" ->
                /\ pc' = "done"
                /\ term' = "returned"
                /\ retval' = RExc("RequestException")
                /\ response' = Finally("open")
           [] outcome = "ok" ->
                /\ pc' = "iter"
                /\ response' = "open"
                /\ UNCHANGED <<term, retval>>
    /\ buffer' = <<>>
    /\ UNCHANGED <<mode, frames, wire, sent, eof, chunk, yielded>>

\* The for loop asks iter_content for the next chunk: the body has ended, the
\* transport raises, or some bytes arrive (none: a keep-alive chunk, skipped).
NextChunk ==
    /\ pc = "iter"
    /\ \/ /\ sent = Len(wire)
          /\ eof' = TRUE
          /\ Finish("returned", RNone)
          /\ UNCHANGED <<sent, chunk, buffer>>
       \/ /\ Finish("returned", RExc("RequestException"))
          /\ UNCHANGED <<sent, eof, chunk, buffer>>
       \/ \E n \in 0 .. Min(ChunkSize, Len(wire) - sent) :
            LET bytes == SubSeq(wire, sent + 1, sent + n)
                c == OnChunk(buffer, bytes)
            IN  /\ sent' = sent + n
                /\ chunk' = bytes
                /\ IF bytes = <<>>
                   THEN pc' = "iter" /\ buffer' = buffer
                   ELSE /\ pc' = IF c.ok THEN "parse" ELSE "iter"
                        /\ buffer' = c.buffer
                /\ UNCHANGED <<eof, term, retval, response>>
    /\ UNCHANGED <<mode, frames, wire, yielded>>

\* One round of the while loop.
ParseStep ==
    /\ pc = "parse"
    /\ LET p == ParseOne(buffer)
       IN  /\ buffer' = p.buffer
           /\ CASE p.kind = "incomplete" ->
                     pc' = "iter" /\ UNCHANGED <<yielded, term, retval, response>>
                [] p.kind = "yield" ->
                     /\ pc' = "yield"
                     /\ yielded' = Append(yielded, p.res)
                     /\ UNCHANGED <<term, retval, response>>
                [] p.kind = "return" ->
                     Finish("returned", p.res) /\ UNCHANGED yielded
                [] p.kind = "raise" ->
                     Finish("raised", p.res) /\ UNCHANGED yielded
    /\ UNCHANGED <<mode, frames, wire, sent, eof, chunk>>

\* The consumer asks for the next element: the generator resumes after yield.
Resume ==
    /\ pc = "yield"
    /\ pc' = "parse"
    /\ UNCHANGED <<mode, frames, wire, sent, eof, chunk, buffer, yielded, term,
                   retval, response>>

\* The consumer closes the generator: GeneratorExit is raised at the yield (no
\* except clause catches it) and the finally clause runs; a generator that
\* has not started just ends.
ConsumerClose ==
    /\ mode = "stream"
    /\ pc \in {"created", "yield"}
    /\ Finish("closed", RNone)
    /\ UNCHANGED <<mode, frames, wire, sent, eof, chunk, buffer, yielded>>

\* _get_full_response: the whole body is read (response.text).
GetFullResponse ==
    /\ mode = "full"
    /\ pc = "created"
    /\ pc' = "done"
    /\ \E outcome \in {"ok", "post_raises", "status_raises"} :
         CASE outcome = "post_raises" ->
                /\ term' = "returned"
                /\ retval' = RExc("RequestException")
                /\ UNCHANGED <<response, sent, eof>>
           [] outcome = "status_raises" ->
                /\ term' = "returned"
                /\ retval' = RExc("RequestException")
                /\ response' = "read"
                /\ UNCHANGED <<sent, eof>>
           [] outcome = "ok" ->
                LET d == DecodeFull(Utf8Decode(wire))
                IN  /\ term' = d.term
                    /\ retval' = d.retval
                    /\ response' = "read"
                    /\ sent' = Len(wire)
                    /\ eof' = TRUE
    /\ UNCHANGED <<mode, frames, wire, chunk, buffer, yielded>>

Next ==
    \/ StreamStart
    \/ NextChunk
    \/ ParseStep
    \/ Resume
    \/ ConsumerClose
    \/ GetFullResponse

Spec == Init /\ [][Next]_vars

(***************************************************************************)
(* Properties                                                              *)
(***************************************************************************)

\* The response is the whole of what the server meant to send.
Valid == wire = WireBytes(frames)

RECURSIVE AllSuccess(_)
AllSuccess(fs) == fs = <<>> \/ (IsSuccess(Head(fs).env) /\ AllSuccess(Tail(fs)))

\* The elements a consumer is to receive for success frames.
ExpectedPayloads(fs) == [i \in 1 .. Len(fs) |-> RValue(StrVal(Payload(fs[i].env)))]

\* The number of bytes up to the closing brace of the i-th frame's envelope.
EnvelopeEnd(fs, i) ==
    Len(Utf8Encode(WireText(SubSeq(fs, 1, i - 1)) \o FrameHead(fs[i])))

\* How many envelopes are complete within the first n bytes.
CompleteFrames(fs, n) == Cardinality({i \in 1 .. Len(fs) : EnvelopeEnd(fs, i) <= n})

\* The transport failed during the call (only the except clauses give this value).
TransportFailed == retval = RExc("RequestException")

\* The streaming call ran to its end: no transport failure, no close by the consumer.
Undisturbed == mode = "stream" /\ pc = "done" /\ term # "closed" /\ ~TransportFailed

\* The last element the consumer received.
LastYielded == IF yielded = <<>> THEN RNone ELSE yielded[Len(yielded)]

\* C1: for a valid sequence of envelopes, however the byte stream is split into
\* chunks, the elements yielded are those yielded when the whole stream is one
\* chunk.
C1_ChunkingIndependence ==
    (Undisturbed /\ Valid) => yielded = StreamResponse(<<wire>>).yielded

\* C2: when a parsed envelope carries a non-success code, the consumer receives
\* exactly one error element (code, msg), as the last element of the output.
C2_ErrorShortCircuit ==
    (mode = "stream" /\ pc = "done" /\ retval.kind = "pair") =>
        /\ LastYielded = retval
        /\ Cardinality({i \in 1 .. Len(yielded) : yielded[i].kind = "pair"}) = 1

\* C3: when the chunk sequence of a truncated response ends with an incomplete
\* fragment in the buffer, the decoder surfaces an error: it raises, or the
\* last element is an error.
C3_TruncatedStream ==
    (mode = "stream" /\ pc = "done" /\ eof /\ ~Valid /\ buffer # <<>>
       /\ ~RawDecode(buffer).ok) =>
        (term = "raised" \/ LastYielded.kind \in {"pair", "exc"})

\* C4: when one chunk holds two or more complete success envelopes, each with
\* or without a "data:" prefix, every payload has been yielded, in order, once
\* that chunk is processed.
C4_MultiEnvelopePerChunk ==
    (mode = "stream" /\ Valid /\ Len(frames) >= 2 /\ AllSuccess(frames)
       /\ chunk = wire /\ pc \in {"iter", "done"} /\ term # "closed"
       /\ ~TransportFailed) =>
        yielded = ExpectedPayloads(frames)

\* C5: a streaming call that has ended, on any path, has not left its response open.
C5_ConnectionRelease ==
    (mode = "stream" /\ pc = "done") => response # "open"

\* The consumer closed the generator while the response was open; it is closed.
C5_Witness ==
    mode = "stream" /\ pc = "done" /\ term = "closed" /\ response = "closed"
      /\ yielded # <<>>

\* C6: a transport failure reaches the caller as an error: an exception object
\* returned by the non-streaming call, or, when streaming, an exception raised
\* or an error element, never a normal end of the output sequence.
C6_TransportErrorSurfaced ==
    (pc = "done" /\ TransportFailed) =>
        \/ mode = "full" /\ term = "returned"
        \/ mode = "stream" /\ (term = "raised" \/ LastYielded.kind = "exc")

\* C7: reading a chunk that is not valid UTF-8 changes nothing: the buffer and
\* the output stay as they were and the generator goes on to the next chunk.
C7_MalformedChunkDropped ==
    [][(pc = "iter" /\ sent' > sent /\ ~Utf8Valid(chunk')) =>
          (buffer' = buffer /\ yielded' = yielded /\ pc' = "iter"
             /\ term' = term /\ retval' = retval /\ response' = response)]_vars

\* An invalid chunk has just been dropped while the buffer held text.
C7_Witness ==
    pc = "iter" /\ chunk # <<>> /\ ~Utf8Valid(chunk) /\ buffer # <<>>

\* C8: whenever the decoder asks the transport for a chunk, the payload of every
\* success envelope complete in the bytes read so far has been yielded.
C8_IncrementalOutput ==
    (mode = "stream" /\ pc = "iter" /\ Valid /\ AllSuccess(frames)) =>
        yielded = ExpectedPayloads(SubSeq(frames, 1, CompleteFrames(frames, sent)))

\* C9: for a body of one envelope, the non-streaming call gives the caller what
\* the streaming call gives on the body as one chunk: the same payload as the
\* one element, the same pair as the terminal error element.
C9_StreamFullConsistency ==
    (mode = "full" /\ pc = "done" /\ Valid /\ Len(frames) = 1 /\ ~TransportFailed) =>
        LET s == StreamResponse(<<wire>>)
        IN  IF term = "returned"
            THEN s.yielded = <<retval>> /\ s.term = "returned"
            ELSE s.yielded = <<>> /\ s.term = "raised" /\ s.retval = retval

\* The response is "data: " followed by one success envelope.
PrefixedSuccess ==
    /\ Valid
    /\ Len(frames) = 1
    /\ frames[1].prefix
    /\ frames[1].lead = <<>>
    /\ frames[1].sep = <<>>
    /\ IsSuccess(frames[1].env)

\* The same envelope without the prefix.
Unprefixed == Dumps(frames[1].env, frames[1].spaced)

\* C10: for "data: " followed by a success envelope, either call gives what it
\* gives for the envelope alone: the one payload of the envelope.
C10_PrefixHandling ==
    /\ (mode = "stream" /\ pc = "done" /\ eof /\ chunk = wire /\ PrefixedSuccess) =>
          /\ yielded = <<RValue(StrVal(Payload(frames[1].env)))>>
          /\ yielded = StreamResponse(<<Utf8Encode(Unprefixed)>>).yielded
    /\ (mode = "full" /\ pc = "done" /\ ~TransportFailed /\ PrefixedSuccess) =>
          /\ retval = RValue(StrVal(Payload(frames[1].env)))
          /\ [term |-> term, retval |-> retval] = DecodeFull(Unprefixed)

\* The streamed body data: {"code":"0000","msg":"","data":{"msg":"hi"}} has
\* been read as one chunk and the call has ended having yielded "hi".
C10_Witness ==
    /\ mode = "stream" /\ pc = "done" /\ eof /\ chunk = wire
    /\ frames = <<Prefixed(EnvHi)>>
    /\ yielded = <<RValue(StrVal(<<"h", "i">>))>>

\* The dict d has the key k.
HasKey(d, k) == \E i \in 1 .. Len(d.items) : d.items[i].key = k

\* A parsed envelope with the success code and no data.msg: the data field is
\* absent, or it is an object without msg.
SuccessWithoutMsg(v) ==
    /\ v.kind = "dict"
    /\ HasKey(v, KeyCode)
    /\ Get(v, KeyCode, NoneVal) = StrVal(Success)
    /\ \/ ~HasKey(v, KeyData)
       \/ /\ Get(v, KeyData, NoneVal).kind = "dict"
          /\ ~HasKey(Get(v, KeyData, NoneVal), KeyMsg)

\* The response is one success envelope sent without data.msg, with or without
\* the "data: " prefix.
OneWithoutMsg ==
    /\ Valid
    /\ Len(frames) = 1
    /\ frames[1].lead = <<>>
    /\ IsSuccess(frames[1].env)
    /\ frames[1].env.data \in {"absent", "empty"}

\* C11: an envelope with the code "0000" and no data.msg makes the decoder give
\* the empty string: the generator yields "" as one element and goes on (no
\* error, no end of the sequence), and the non-streaming call returns "".
C11_Defaulting ==
    [][/\ (pc = "parse" /\ RawDecode(buffer).ok
             /\ SuccessWithoutMsg(RawDecode(buffer).val)) =>
            /\ yielded' = Append(yielded, RValue(EmptyStr))
            /\ pc' = "yield"
            /\ term' = "running"
            /\ retval' = RNone
            /\ response' = response
       /\ (mode = "full" /\ pc = "created" /\ OneWithoutMsg
             /\ retval' # RExc("RequestException")) =>
            (term' = "returned" /\ retval' = RValue(EmptyStr))]_vars

\* The streamed envelope {"code":"0000","data":{}} has just yielded "" and the
\* generator is suspended, still running.
C11_Witness ==
    /\ mode = "stream" /\ pc = "yield" /\ term = "running"
    /\ frames = <<Bare(EnvNoMsg)>>
    /\ yielded = <<RValue(EmptyStr)>>

\* The number of bytes before the opening brace of the i-th frame's envelope.
EnvelopeStart(fs, i) ==
    EnvelopeEnd(fs, i) - Len(Utf8Encode(Dumps(fs[i].env, fs[i].spaced)))

\* The first n bytes end inside an envelope: after its first byte, before its last.
InsideEnvelope(fs, n) ==
    \E i \in 1 .. Len(fs) : EnvelopeStart(fs, i) < n /\ n < EnvelopeEnd(fs, i)

\* Every chunk read so far was decoded: there was one, valid, or the body has
\* no multi-byte character.
AllDecoded ==
    \/ sent = Len(chunk) /\ Utf8Valid(chunk)
    \/ \A i \in 1 .. Len(wire) : wire[i] < 128

\* The decoded input read so far that follows the last extracted envelope.
Unextracted ==
    LET k == Len(yielded)
        from == IF k = 0 THEN 0 ELSE EnvelopeEnd(frames, k)
    IN  Utf8Decode(SubSeq(wire, from + 1, sent))

\* That text without the whitespace between envelopes: the whitespace before
\* it, and the whitespace after it unless the input ends inside an envelope.
Residue(text) == IF InsideEnvelope(frames, sent) THEN LStrip(text) ELSE Strip(text)

\* The same without a leading "data:" and the whitespace after it.
WithoutPrefix(text) ==
    IF StartsWith(text, DataPrefix) THEN LStrip(DropFirst(text, 5)) ELSE text

\* The envelopes are sent without whitespace between their tokens: the only
\* whitespace inside an envelope is inside a JSON string.
Compact == \A i \in 1 .. Len(frames) : ~frames[i].spaced

\* C12: after each chunk is processed, the buffer is the decoded input that
\* follows the last extracted envelope, less only a leading "data:" prefix and
\* the whitespace between envelopes; whitespace inside a JSON string of an
\* incomplete envelope is kept.
C12_BufferResidue ==
    (mode = "stream" /\ pc = "iter" /\ sent > 0 /\ Valid /\ AllSuccess(frames)
       /\ Compact /\ AllDecoded) =>
        buffer \in {Residue(Unextracted), WithoutPrefix(Residue(Unextracted))}

=============================================================================
